---- MODULE Spec2Model ----
(***************************************************************************)
(* libsctui, src/sctui.h: a terminal session (raw mode + alternate         *)
(* screen), a fixed-size draw buffer flushed by write(), cursor-move       *)
(* deduplication, a window-size query and a one-byte key read.             *)
(*                                                                         *)
(* Every C function is an operator from a world record W to the world      *)
(* record after the call; a call that ends the process (exit, abort)       *)
(* leaves W.pc # "running" and its callers stop there.  Each action of     *)
(* Next is one call of the public API by the application.                  *)
(*                                                                         *)
(* Bytes are their character codes.  C index i of the draw buffer is       *)
(* index i of the function buf (domain 0 .. buf_size-1).  write() is       *)
(* taken to be complete and tcgetattr/tcsetattr to succeed (the code       *)
(* checks neither).                                                        *)
(***************************************************************************)
EXTENDS Integers, Sequences, FiniteSets, TLC

(* ------------------------------ bounds --------------------------------- *)

\* <stdio.h> BUFSIZ, the capacity of the draw buffer, scaled down so that
\* one escape sequence (6 or 7 bytes) fits and two overflow it.
BUFSIZ == 7

\* Under SpecMoves, the number of sctui_cursor calls made in a row.
MaxMoves == 3

\* Under SpecStream, the payload bytes after which no further payload is
\* given to the session.
MaxStream == 12

\* Under SpecText, the largest width given to sctui_prepare_text.
MaxWidth == 6

\* Under SpecText, the longest text made of 'h' and newline characters.
MaxTextLen == 2

(* ----------------------------- constants ------------------------------- *)

NULL == 0

\* The application's struct sctui objects (addresses).  The one it
\* initialises first is called 1.
Ptrs == {1, 2}

ESC_CLEAR_SCREEN == <<27, 91, 50, 74>>                          \* ESC [ 2 J

ESC_CLOSE_ALT_SCREEN == <<27, 91, 63, 49, 48, 52, 57, 108>>     \* ESC [ ? 1049 l

ESC_OPEN_ALT_SCREEN == <<27, 91, 63, 49, 48, 52, 57, 104>>      \* ESC [ ? 1049 h

ESC_HIDE_CURSOR == <<27, 91, 63, 50, 53, 108>>                  \* ESC [ ? 25 l

ESC_SHOW_CURSOR == <<27, 91, 63, 50, 53, 104>>                  \* ESC [ ? 25 h

(* ------------------------------ termios -------------------------------- *)

\* The flag words of struct termios are sets of bits; CS8 is both bits of
\* the CSIZE field (CS7 is the high bit alone, CS5 neither).
CS8 == {"CSIZE_lo", "CSIZE_hi"}

ZeroTermios ==
    [c_cflag |-> {}, c_iflag |-> {}, c_lflag |-> {}, c_oflag |-> {},
     VMIN |-> 0, VTIME |-> 0]

\* The modes the terminal may be in when the program starts: an ordinary
\* cooked 8-bit terminal, and a 7-bit parity terminal without echo, flow
\* control or output processing.
InitialModes ==
    { [c_cflag |-> {"CSIZE_lo", "CSIZE_hi", "CREAD"},
       c_iflag |-> {"IXON", "ICRNL"},
       c_lflag |-> {"ECHO", "ICANON", "ISIG"},
       c_oflag |-> {"OPOST"}, VMIN |-> 1, VTIME |-> 0],
      [c_cflag |-> {"CSIZE_hi", "PARENB", "CREAD"},
       c_iflag |-> {"ICRNL", "ISTRIP"},
       c_lflag |-> {"ICANON", "ISIG"},
       c_oflag |-> {}, VMIN |-> 1, VTIME |-> 0] }

(* --------------------------- struct sctui ------------------------------ *)

\* A struct sctui that sctui_init has not filled yet (static storage: all
\* zero, buf a null pointer).  No operation of the model reads it.
ZeroSctui ==
    [cur |-> ZeroTermios, orig |-> ZeroTermios,
     cursor_x |-> 0, cursor_y |-> 0, w |-> 0, h |-> 0,
     buf |-> [i \in {} |-> 0], buf_size |-> 0, buf_used |-> 0]

\* The first n bytes of a buffer, as a sequence.
Held(buf, n) == [i \in 1..n |-> buf[i - 1]]

(* ------------------------------ inputs --------------------------------- *)

Fill(n) == [i \in 1..n |-> 120]

\* Texts the application draws: empty, "hi", one of exactly the capacity
\* and one a byte longer than the capacity.
Texts == { <<>>, <<104, 105>>, Fill(BUFSIZ), Fill(BUFSIZ + 1) }

CoordsX == {5, 6}

CoordsY == {5, 10}

\* What ioctl(TIOCGWINSZ) may answer: a failure (ws is not filled), or a
\* success reporting a zero column count, a zero row count or neither.
IoctlResults ==
    { [rc |-> -1, ws_col |-> 0, ws_row |-> 0],
      [rc |-> 0, ws_col |-> 0, ws_row |-> 43],
      [rc |-> 0, ws_col |-> 132, ws_row |-> 0],
      [rc |-> 0, ws_col |-> 132, ws_row |-> 43] }

\* What read() may deliver within the timeout: 0 stands for no byte.
Arrivals == {0, 97}

(* ------------------------------- state --------------------------------- *)

VARIABLES
    mem,            \* the struct sctui at each address of Ptrs
    global_sctui,   \* the static guard pointer (NULL or an address)
    tty,            \* the terminal: [attrs, alt] (mode, alternate screen on)
    trace,          \* what the last API call did, in order: its write and
                    \* tcsetattr calls and the payloads it stored in the buffer
    pc,             \* "running", "exited" (exit(1)) or "aborted" (assert)
    stderr,         \* the message _sctui_die printed, "" if none
    overrun,        \* the last API call stored a byte outside the draw buffer
    keybuf,         \* the bytes of the application's keybuf[0], in memory order
    pending,        \* history: the payload bytes stored since the last flush
    active,         \* history: sessions initialised and not finalised
    pre_init,       \* history: terminal attributes just before sctui_init
    moves,          \* history, kept under SpecMoves only: the sctui_cursor calls
                    \* made in a row, each with the bytes it stored
    stream,         \* history, kept under SpecStream only: all payload bytes
                    \* given to the buffer and all bytes written from it
    last_seq,       \* history: <<x, y>> of the cursor-position sequence stored
                    \* last, <<1, 1>> if none since sctui_init
    pt,             \* under SpecText only: the last sctui_prepare_text call,
                    \* its arguments and the buffer it left
    last_op         \* history: the API call made last

vars == <<mem, global_sctui, tty, trace, pc, stderr, overrun, keybuf,
          pending, active, pre_init, moves, stream, last_seq, pt, last_op>>

\* The world an API call starts in: the state, with the per-call records
\* empty.
World ==
    [mem |-> mem, global_sctui |-> global_sctui, tty |-> tty,
     trace |-> <<>>, pc |-> pc, stderr |-> stderr,
     overrun |-> FALSE, keybuf |-> keybuf]

SetWorld(W) ==
    /\ mem' = W.mem
    /\ global_sctui' = W.global_sctui
    /\ tty' = W.tty
    /\ trace' = W.trace
    /\ pc' = W.pc
    /\ stderr' = W.stderr
    /\ overrun' = W.overrun
    /\ keybuf' = W.keybuf

(* --------------------------- system calls ------------------------------ *)

WriteEv(bytes) == [call |-> "write", data |-> bytes, attrs |-> ZeroTermios]

SetattrEv(attrs) == [call |-> "tcsetattr", data |-> <<>>, attrs |-> attrs]

\* Not a system call: the draw buffer took the payload bytes.
AppendEv(bytes) == [call |-> "append", data |-> bytes, attrs |-> ZeroTermios]

\* write(STDOUT_FILENO, bytes, n): the terminal receives the bytes; the two
\* alternate-screen sequences switch its screen.
write(W, bytes) ==
    [W EXCEPT !.trace = Append(@, WriteEv(bytes)),
              !.tty.alt = IF bytes = ESC_OPEN_ALT_SCREEN THEN TRUE
                          ELSE IF bytes = ESC_CLOSE_ALT_SCREEN THEN FALSE
                          ELSE @]

\* tcsetattr(STDIN_FILENO, TCSAFLUSH, &attrs)
tcsetattr(W, attrs) ==
    [W EXCEPT !.trace = Append(@, SetattrEv(attrs)),
              !.tty.attrs = attrs]

\* A failed assert(): abort().
abort(W) == [W EXCEPT !.pc = "aborted"]

\* stpcpy(&buf[at], text): the bytes of text and the terminating NUL, stored
\* from index at on.  A byte whose index is outside the allocation is a heap
\* overrun: it does not land in the buffer or in the struct, and is recorded.
stpcpy(W, p, at, text) ==
    LET src == Append(text, 0)
        buf == W.mem[p].buf
    IN  [W EXCEPT !.mem[p].buf =
                      [i \in DOMAIN buf |->
                          IF i >= at /\ i < at + Len(src)
                          THEN src[i - at + 1] ELSE buf[i]],
                  !.overrun = @ \/ (at + Len(src) - 1 \notin DOMAIN buf),
                  !.trace = Append(@, AppendEv(text))]

(* ---------------------------- the library ------------------------------ *)

_sctui_die(W, msg) == [W EXCEPT !.stderr = msg, !.pc = "exited"]

sctui_clear(W) == write(W, ESC_CLEAR_SCREEN)

\* Faulty variant of sctui_commit: writes the whole allocation, not the bytes held.
sctui_commit_whole(W, p) ==
    [write(W, Held(W.mem[p].buf, W.mem[p].buf_size))
        EXCEPT !.mem[p].buf_used = 0]

sctui_commit(W, p) ==
    [write(W, Held(W.mem[p].buf, W.mem[p].buf_used))
        EXCEPT !.mem[p].buf_used = 0]

\* Faulty variant of _sctui_buf_append: no flush when the payload does not fit.
_sctui_buf_append_noflush(W, p, text) ==
    LET siz == Len(text) IN
    IF ~(siz <= BUFSIZ) THEN abort(W)
    ELSE [stpcpy(W, p, W.mem[p].buf_used, text) EXCEPT !.mem[p].buf_used = @ + siz]

\* Faulty variant of _sctui_buf_append: flushes also when the payload fits exactly.
_sctui_buf_append_ge(W, p, text) ==
    LET siz == Len(text) IN
    IF ~(siz <= BUFSIZ) THEN abort(W)
    ELSE LET W1 == IF W.mem[p].buf_used + siz >= W.mem[p].buf_size
                   THEN sctui_commit(W, p) ELSE W
             W2 == stpcpy(W1, p, W1.mem[p].buf_used, text)
         IN  [W2 EXCEPT !.mem[p].buf_used = @ + siz]

\* Faulty variant of _sctui_buf_append: held bytes are dropped, not flushed.
_sctui_buf_append_drop(W, p, text) ==
    LET siz == Len(text) IN
    IF ~(siz <= BUFSIZ) THEN abort(W)
    ELSE LET W1 == IF W.mem[p].buf_used + siz > W.mem[p].buf_size
                   THEN [W EXCEPT !.mem[p].buf_used = 0] ELSE W
             W2 == stpcpy(W1, p, W1.mem[p].buf_used, text)
         IN  [W2 EXCEPT !.mem[p].buf_used = @ + siz]

\* Faulty variant of _sctui_buf_append: a payload of BUFSIZ bytes is refused.
_sctui_buf_append_lt(W, p, text) ==
    LET siz == Len(text) IN
    IF ~(siz < BUFSIZ) THEN abort(W)
    ELSE LET W1 == IF W.mem[p].buf_used + siz > W.mem[p].buf_size
                   THEN sctui_commit(W, p) ELSE W
             W2 == stpcpy(W1, p, W1.mem[p].buf_used, text)
         IN  [W2 EXCEPT !.mem[p].buf_used = @ + siz]

_sctui_buf_append(W, p, text) ==
    LET siz == Len(text) IN
    IF ~(siz <= BUFSIZ) THEN abort(W)
    ELSE LET W1 == IF W.mem[p].buf_used + siz > W.mem[p].buf_size
                   THEN sctui_commit(W, p) ELSE W
             W2 == stpcpy(W1, p, W1.mem[p].buf_used, text)
         IN  [W2 EXCEPT !.mem[p].buf_used = @ + siz]

RECURSIVE Dec(_)
\* printf's %u of a non-negative number: its decimal digits.
Dec(n) == IF n < 10 THEN <<48 + n>> ELSE Dec(n \div 10) \o <<48 + (n % 10)>>

\* sprintf(b, "\x1b[%u;%uH", y, x)
CursorSeq(x, y) == <<27, 91>> \o Dec(y) \o <<59>> \o Dec(x) \o <<72>>

\* Faulty variant of sctui_cursor: column first in the escape sequence.
sctui_cursor_swapped(W, p, x, y) ==
    IF W.mem[p].cursor_x = x /\ W.mem[p].cursor_y = y THEN W
    ELSE LET W1 == _sctui_buf_append(W, p, CursorSeq(y, x)) IN
         IF W1.pc # "running" THEN W1
         ELSE [W1 EXCEPT !.mem[p].cursor_x = x, !.mem[p].cursor_y = y]

\* Faulty variant of sctui_cursor: no comparison with the recorded position.
sctui_cursor_nodedup(W, p, x, y) ==
    LET W1 == _sctui_buf_append(W, p, CursorSeq(x, y)) IN
    IF W1.pc # "running" THEN W1
    ELSE [W1 EXCEPT !.mem[p].cursor_x = x, !.mem[p].cursor_y = y]

\* Faulty variant of sctui_cursor: only the column is recorded.
sctui_cursor_xonly(W, p, x, y) ==
    IF W.mem[p].cursor_x = x /\ W.mem[p].cursor_y = y THEN W
    ELSE LET W1 == _sctui_buf_append(W, p, CursorSeq(x, y)) IN
         IF W1.pc # "running" THEN W1
         ELSE [W1 EXCEPT !.mem[p].cursor_x = x]

sctui_cursor(W, p, x, y) ==
    IF W.mem[p].cursor_x = x /\ W.mem[p].cursor_y = y THEN W
    ELSE LET W1 == _sctui_buf_append(W, p, CursorSeq(x, y)) IN
         IF W1.pc # "running" THEN W1
         ELSE [W1 EXCEPT !.mem[p].cursor_x = x, !.mem[p].cursor_y = y]

\* Faulty variant of sctui_fini: re-applies the raw attributes.
sctui_fini_cur(W) ==
    IF W.global_sctui = NULL THEN abort(W)
    ELSE tcsetattr(write(W, ESC_CLOSE_ALT_SCREEN), W.mem[W.global_sctui].cur)

\* Faulty variant of sctui_fini: the guard is cleared.
sctui_fini_forget(W) ==
    IF W.global_sctui = NULL THEN abort(W)
    ELSE [tcsetattr(write(W, ESC_CLOSE_ALT_SCREEN), W.mem[W.global_sctui].orig)
             EXCEPT !.global_sctui = NULL]

sctui_fini(W) ==
    IF W.global_sctui = NULL THEN abort(W)
    ELSE tcsetattr(write(W, ESC_CLOSE_ALT_SCREEN), W.mem[W.global_sctui].orig)

\* Faulty variant of sctui_get_win: dies without finalising.
sctui_get_win_nofini(W, p, ws) ==
    IF ws.rc = -1 \/ ws.ws_col = 0
    THEN _sctui_die(W, "[sctui]: failed to get winsize")
    ELSE [W EXCEPT !.mem[p].w = IF ws.ws_col # 0 THEN ws.ws_col ELSE 80,
                   !.mem[p].h = IF ws.ws_row # 0 THEN ws.ws_row ELSE 24]

\* Faulty variant of sctui_get_win: a zero column count is not a failure.
sctui_get_win_nocolcheck(W, p, ws) ==
    IF ws.rc = -1
    THEN LET W1 == sctui_fini(W) IN
         IF W1.pc # "running" THEN W1
         ELSE _sctui_die(W1, "[sctui]: failed to get winsize")
    ELSE [W EXCEPT !.mem[p].w = IF ws.ws_col # 0 THEN ws.ws_col ELSE 80,
                   !.mem[p].h = IF ws.ws_row # 0 THEN ws.ws_row ELSE 24]

sctui_get_win(W, p, ws) ==
    IF ws.rc = -1 \/ ws.ws_col = 0
    THEN LET W1 == sctui_fini(W) IN
         IF W1.pc # "running" THEN W1
         ELSE _sctui_die(W1, "[sctui]: failed to get winsize")
    ELSE [W EXCEPT !.mem[p].w = IF ws.ws_col # 0 THEN ws.ws_col ELSE 80,
                   !.mem[p].h = IF ws.ws_row # 0 THEN ws.ws_row ELSE 24]

\* read(STDIN_FILENO, keybuf, 1): one byte into the lowest address of
\* keybuf[0] when a byte arrives; nothing is stored on a timeout.
sctui_grab_key(W, arrival) ==
    IF arrival = 0 THEN W
    ELSE [W EXCEPT !.keybuf[1] = arrival]

\* Faulty variant of sctui_hide_cursor: the sequence is written at once.
sctui_hide_cursor_direct(W, p) == write(W, ESC_HIDE_CURSOR)

sctui_hide_cursor(W, p) == _sctui_buf_append(W, p, ESC_HIDE_CURSOR)

sctui_show_cursor(W, p) == _sctui_buf_append(W, p, ESC_SHOW_CURSOR)

_sctui_ecalloc(W, calloc_ok) ==
    IF ~calloc_ok THEN _sctui_die(W, "failed to calloc") ELSE W

\* sctui_init from tcgetattr on: the guard has let the call pass.
sctui_init_session(W, p, ws, calloc_ok) ==
    LET orig == W.tty.attrs
        cur  == [orig EXCEPT !.c_cflag = @ \cup CS8,
                             !.c_iflag = @ \ {"IXON", "ICRNL"},
                             !.c_lflag = @ \ {"ECHO", "ICANON", "ISIG"},
                             !.c_oflag = @ \ {"OPOST"},
                             !.VMIN = 0,
                             !.VTIME = 1]
        W1 == [W EXCEPT !.mem[p].orig = orig,
                        !.global_sctui = p,
                        !.mem[p].cur = cur]
        W2 == write(tcsetattr(W1, W1.mem[p].cur), ESC_OPEN_ALT_SCREEN)
        W3 == sctui_get_win(W2, p, ws)
        W4 == [W3 EXCEPT !.mem[p].cursor_x = 1, !.mem[p].cursor_y = 1]
        W5 == _sctui_ecalloc(W4, calloc_ok)
        W6 == [W5 EXCEPT !.mem[p].buf = [i \in 0..(BUFSIZ - 1) |-> 0],
                         !.mem[p].buf_size = BUFSIZ,
                         !.mem[p].buf_used = 0]
    IN  IF W3.pc # "running" THEN W3
        ELSE IF W5.pc # "running" THEN W5
        ELSE write(W6, ESC_CLEAR_SCREEN)

\* Faulty variant of sctui_init: the guard is not consulted.
sctui_init_noguard(W, p, ws, calloc_ok) == sctui_init_session(W, p, ws, calloc_ok)

sctui_init(W, p, ws, calloc_ok) ==
    IF W.global_sctui # NULL THEN _sctui_die(W, "[sctui]: initialized")
    ELSE sctui_init_session(W, p, ws, calloc_ok)

\* Faulty variant of sctui_text: the cursor is not moved back.
sctui_text_stay(W, p, x, y, text) ==
    LET W1 == sctui_cursor(W, p, x, y)
    IN  IF W1.pc # "running" THEN W1
        ELSE _sctui_buf_append(W1, p, text)

sctui_text(W, p, x, y, text) ==
    LET ox == W.mem[p].cursor_x
        oy == W.mem[p].cursor_y
        W1 == sctui_cursor(W, p, x, y)
        W2 == _sctui_buf_append(W1, p, text)
    IN  IF W1.pc # "running" THEN W1
        ELSE IF W2.pc # "running" THEN W2
        ELSE sctui_cursor(W2, p, ox, oy)

(* ------------------------ sctui_prepare_text --------------------------- *)

\* The caller's line buffer: its bytes (index 0 .. cap-1) and whether a
\* byte was stored outside it.
PtStore(b, i, c) ==
    IF i \in DOMAIN b.bytes
    THEN [b EXCEPT !.bytes[i] = c]
    ELSE [b EXCEPT !.overrun = TRUE]

RECURSIVE PtStoreRun(_, _, _)
\* Stores of the bytes of run at index at, at + 1, ...
PtStoreRun(b, at, run) ==
    IF run = <<>> THEN b
    ELSE PtStoreRun(PtStore(b, at, Head(run)), at + 1, Tail(run))

\* strncpy(&buf[at], text, n): n bytes, those of text and then NULs.  A
\* negative int n is a size_t near 2^64: after text the NULs run through
\* the buffer and far past every mapping, and the process is killed.
strncpy(b, at, text, n) ==
    IF n < 0
    THEN [PtStoreRun(b, at, text \o [k \in 1..Cardinality(DOMAIN b.bytes) |-> 0])
             EXCEPT !.overrun = TRUE, !.status = "killed"]
    ELSE PtStoreRun(b, at, [k \in 1..n |-> IF k <= Len(text) THEN text[k] ELSE 0])

RECURSIVE PtBlank(_, _, _)
\* for (; i < to; i++) buf[i] = ' ';
PtBlank(b, i, to) ==
    IF i < to THEN PtBlank(PtStore(b, i, 32), i + 1, to) ELSE b

RECURSIVE PtFillLoop(_, _, _, _)
\* for (; i < w; i++) { if (i < stop && buf[i] != '\n') continue; buf[i] = ' '; }
PtFillLoop(b, i, w, stop) ==
    IF i < w
    THEN PtFillLoop(IF i < stop /\ b.bytes[i] # 10 THEN b ELSE PtStore(b, i, 32),
                    i + 1, w, stop)
    ELSE b

\* Faulty variant of sctui_prepare_text: a newline is left in the line.
sctui_prepare_text_nl(buf, offset, w, text) ==
    LET tlen == Len(text)
        len  == IF w - offset > tlen THEN tlen ELSE w - offset
        b0   == [bytes |-> buf, overrun |-> FALSE, status |-> "returned"]
        b1   == strncpy(b0, offset, text, len)
        b2   == PtBlank(b1, 0, offset)
        b3   == PtBlank(b2, offset + len, w)
        i    == IF offset < w THEN w ELSE offset
    IN  IF b1.status # "returned" THEN b1 ELSE PtStore(b3, i, 0)

sctui_prepare_text(buf, offset, w, text) ==
    LET tlen == Len(text)
        len  == IF w - offset > tlen THEN tlen ELSE w - offset
        b0   == [bytes |-> buf, overrun |-> FALSE, status |-> "returned"]
        b1   == strncpy(b0, offset, text, len)
        b2   == PtBlank(b1, 0, offset)
        b3   == PtFillLoop(b2, offset, w, offset + len)
        i    == IF offset < w THEN w ELSE offset
    IN  IF b1.status # "returned" THEN b1 ELSE PtStore(b3, i, 0)

(* ------------------------- the application ----------------------------- *)

Op(name, args) == [name |-> name, args |-> args]

\* The events of one kind in a trace.
Events(t, call) == SelectSeq(t, LAMBDA e : e.call = call)

RECURSIVE PendingAfter(_, _)
\* The payload bytes stored and not yet flushed after a call with trace t
\* that started with pend: each write of a drawing call is a flush.
PendingAfter(pend, t) ==
    IF t = <<>> THEN pend
    ELSE PendingAfter(IF Head(t).call = "append" THEN pend \o Head(t).data
                      ELSE IF Head(t).call = "write" THEN <<>>
                      ELSE pend,
                      Tail(t))

RECURSIVE Number(_)
\* The number a string of decimal digits denotes.
Number(ds) ==
    IF ds = <<>> THEN 0
    ELSE 10 * Number(SubSeq(ds, 1, Len(ds) - 1)) + (ds[Len(ds)] - 48)

\* data is a cursor-position sequence: ESC [ digits ; digits H.
IsMoveSeq(data) ==
    /\ Len(data) >= 6
    /\ data[1] = 27 /\ data[2] = 91 /\ data[Len(data)] = 72
    /\ \E k \in 4..(Len(data) - 2) :
          /\ data[k] = 59
          /\ \A j \in (3..(Len(data) - 1)) \ {k} : data[j] \in 48..57

\* <<x, y>> of the cursor-position sequence data: the row comes first.
MoveTarget(data) ==
    LET k == CHOOSE k \in 4..(Len(data) - 2) : data[k] = 59
    IN  <<Number(SubSeq(data, k + 1, Len(data) - 1)), Number(SubSeq(data, 3, k - 1))>>

RECURSIVE LastSeqAfter(_, _)
\* <<x, y>> of the cursor-position sequence stored last after a call with
\* trace t that started with prev.
LastSeqAfter(prev, t) ==
    IF t = <<>> THEN prev
    ELSE LastSeqAfter(IF Head(t).call = "append" /\ IsMoveSeq(Head(t).data)
                      THEN MoveTarget(Head(t).data) ELSE prev,
                      Tail(t))

\* The process is alive.
CanCall == pc = "running"

\* "You must init sctui by this before calling any function needed 'sctui'":
\* the application passes the struct it initialised, and draws on it only
\* until it finalises it.
Session(p) == CanCall /\ p = global_sctui /\ p \in active

\* active: a session becomes Active when sctui_init returns, and stops
\* being Active when it is finalised or the process ends.
Call(W, op, act) ==
    /\ SetWorld(W)
    /\ last_op' = op
    /\ active' = IF W.pc = "running" THEN act ELSE active
    /\ UNCHANGED <<pre_init, pt, stream>>
    /\ moves' = <<>>
    /\ last_seq' = LastSeqAfter(last_seq, W.trace)

\* A call that draws: Call, and the history of the unflushed payload.
Draw(W, op) ==
    /\ Call(W, op, active)
    /\ pending' = PendingAfter(pending, W.trace)

Init ==
    /\ mem = [p \in Ptrs |-> ZeroSctui]
    /\ global_sctui = NULL
    /\ tty \in { [attrs |-> m, alt |-> FALSE] : m \in InitialModes }
    /\ trace = <<>>
    /\ pc = "running"
    /\ stderr = ""
    /\ overrun = FALSE
    /\ keybuf = <<0, 0, 0, 0>>
    /\ pending = <<>>
    /\ active = {}
    /\ pre_init = tty.attrs
    /\ moves = <<>>
    /\ stream = [given |-> <<>>, sent |-> <<>>]
    /\ last_seq = <<1, 1>>
    /\ pt = [called |-> FALSE]
    /\ last_op = Op("start", [p |-> NULL])

DoInit ==
    \E p \in Ptrs, ws \in IoctlResults, calloc_ok \in BOOLEAN :
        /\ CanCall
        /\ global_sctui = NULL => p = 1
        /\ LET W == sctui_init(World, p, ws, calloc_ok) IN
           /\ SetWorld(W)
           /\ active' = IF W.pc = "running" THEN active \cup {p} ELSE active
        /\ pre_init' = IF global_sctui = NULL THEN tty.attrs ELSE pre_init
        \* ioctl and calloc give their answers only to a call that gets to ask
        /\ last_op' = Op("sctui_init",
                         IF global_sctui = NULL
                         THEN [p |-> p, ws |-> ws, calloc_ok |-> calloc_ok]
                         ELSE [p |-> p])
        /\ moves' = <<>>
        /\ last_seq' = IF global_sctui = NULL THEN <<1, 1>> ELSE last_seq
        /\ UNCHANGED <<pending, pt, stream>>

DoFini ==
    /\ CanCall
    /\ Call(sctui_fini(World), Op("sctui_fini", [p |-> NULL]),
            active \ {global_sctui})
    /\ UNCHANGED pending

DoGetWin ==
    \E p \in Ptrs, ws \in IoctlResults :
        /\ Session(p)
        /\ Call(sctui_get_win(World, p, ws),
                Op("sctui_get_win", [p |-> p, ws |-> ws]), active)
        /\ UNCHANGED pending

DoClear ==
    /\ CanCall
    /\ Call(sctui_clear(World), Op("sctui_clear", [p |-> NULL]), active)
    /\ UNCHANGED pending

DoCommit ==
    \E p \in Ptrs :
        /\ Session(p)
        /\ Draw(sctui_commit(World, p), Op("sctui_commit", [p |-> p]))

DoCursor ==
    \E p \in Ptrs, x \in CoordsX, y \in CoordsY :
        /\ Session(p)
        /\ Draw(sctui_cursor(World, p, x, y),
                Op("sctui_cursor", [p |-> p, x |-> x, y |-> y]))

DoHideCursor ==
    \E p \in Ptrs :
        /\ Session(p)
        /\ Draw(sctui_hide_cursor(World, p), Op("sctui_hide_cursor", [p |-> p]))

DoShowCursor ==
    \E p \in Ptrs :
        /\ Session(p)
        /\ Draw(sctui_show_cursor(World, p), Op("sctui_show_cursor", [p |-> p]))

DoText ==
    \E p \in Ptrs, x \in CoordsX, y \in CoordsY, text \in Texts :
        /\ Session(p)
        /\ Draw(sctui_text(World, p, x, y, text),
                Op("sctui_text", [p |-> p, x |-> x, y |-> y, text |-> text]))

DoGrabKey ==
    \E arrival \in Arrivals :
        /\ CanCall
        /\ active # {}
        /\ Call(sctui_grab_key(World, arrival),
                Op("sctui_grab_key", [arrival |-> arrival]), active)
        /\ UNCHANGED pending

\* A sctui_cursor call whose place in a run of such calls is recorded.
DoMove ==
    \E p \in Ptrs, x \in CoordsX, y \in CoordsY :
        /\ Session(p)
        /\ Len(moves) < MaxMoves
        /\ LET W == sctui_cursor(World, p, x, y) IN
           /\ SetWorld(W)
           /\ pending' = PendingAfter(pending, W.trace)
           /\ moves' = Append(moves, [fx |-> mem[p].cursor_x, fy |-> mem[p].cursor_y,
                                      x |-> x, y |-> y,
                                      stored |-> Events(W.trace, "append")])
           /\ last_seq' = LastSeqAfter(last_seq, W.trace)
        /\ last_op' = Op("sctui_cursor", [p |-> p, x |-> x, y |-> y])
        /\ UNCHANGED <<active, pre_init, pt, stream>>

Next ==
    \/ DoInit
    \/ DoFini
    \/ DoGetWin
    \/ DoClear
    \/ DoCommit
    \/ DoCursor
    \/ DoHideCursor
    \/ DoShowCursor
    \/ DoText
    \/ DoGrabKey

Spec == Init /\ [][Next]_vars

\* An application that initialises, hides the cursor, moves it and commits.
NextMoves ==
    \/ DoInit
    \/ DoHideCursor
    \/ DoCommit
    \/ DoMove

SpecMoves == Init /\ [][NextMoves]_vars

RECURSIVE Bytes(_)
\* The bytes of the events t, in order.
Bytes(t) == IF t = <<>> THEN <<>> ELSE Head(t).data \o Bytes(Tail(t))

\* A drawing call whose payloads and writes are added to the history of
\* the whole stream.
Logged(W, op) ==
    /\ Len(stream.given) < MaxStream
    /\ SetWorld(W)
    /\ pending' = PendingAfter(pending, W.trace)
    /\ last_seq' = LastSeqAfter(last_seq, W.trace)
    /\ stream' = [given |-> stream.given \o Bytes(Events(W.trace, "append")),
                  sent  |-> stream.sent \o Bytes(Events(W.trace, "write"))]
    /\ last_op' = op
    /\ moves' = <<>>
    /\ UNCHANGED <<active, pre_init, pt>>

LoggedCommit ==
    \E p \in Ptrs :
        /\ Session(p)
        /\ Logged(sctui_commit(World, p), Op("sctui_commit", [p |-> p]))

LoggedCursor ==
    \E p \in Ptrs, x \in CoordsX, y \in CoordsY :
        /\ Session(p)
        /\ Logged(sctui_cursor(World, p, x, y),
                  Op("sctui_cursor", [p |-> p, x |-> x, y |-> y]))

LoggedHideCursor ==
    \E p \in Ptrs :
        /\ Session(p)
        /\ Logged(sctui_hide_cursor(World, p), Op("sctui_hide_cursor", [p |-> p]))

LoggedText ==
    \E p \in Ptrs, x \in CoordsX, y \in CoordsY, text \in Texts :
        /\ Session(p)
        /\ Logged(sctui_text(World, p, x, y, text),
                  Op("sctui_text", [p |-> p, x |-> x, y |-> y, text |-> text]))

NextStream ==
    \/ DoInit
    \/ LoggedCommit
    \/ LoggedCursor
    \/ LoggedHideCursor
    \/ LoggedText

SpecStream == Init /\ [][NextStream]_vars

RECURSIVE Strings(_, _)
\* The strings over an alphabet of at most n characters.
Strings(alphabet, n) ==
    IF n = 0 THEN { <<>> }
    ELSE LET shorter == Strings(alphabet, n - 1)
         IN  shorter \cup { Append(t, c) : t \in shorter, c \in alphabet }

\* The texts given to sctui_prepare_text: those of 'h' and newline, and
\* "hi\nyo".
LineTexts == Strings({104, 10}, MaxTextLen) \cup { <<104, 105, 10, 121, 111>> }

\* The application formats a line into a buffer of w + 1 bytes (the line
\* and its terminator) that holds leftovers: NULs or newlines.  The function
\* reads nothing but its arguments, so one call per behaviour is followed.
DoPrepareText ==
    \E offset \in 0..(MaxWidth + 1), w \in 0..MaxWidth,
       text \in LineTexts, junk \in {0, 10} :
        /\ pc = "running"
        /\ ~pt.called
        /\ pt' = [called |-> TRUE, offset |-> offset, w |-> w, text |-> text,
                  out |-> sctui_prepare_text([i \in 0..w |-> junk], offset, w, text)]
        /\ UNCHANGED <<mem, global_sctui, tty, trace, pc, stderr, overrun, keybuf,
                       pending, active, pre_init, moves, stream, last_seq,
                       last_op>>

NextText == DoPrepareText

SpecText == Init /\ [][NextText]_vars

(* ------------------------------- claims -------------------------------- *)

\* The cursor-position sequence ESC [ row ; column H for coordinates below 100.
Digits(n) == IF n < 10 THEN <<48 + n>> ELSE <<48 + (n \div 10), 48 + (n % 10)>>

ExpectedMove(x, y) == <<27, 91>> \o Digits(y) \o <<59>> \o Digits(x) \o <<72>>

\* Every flush in trace t, started with pend unflushed, writes exactly the
\* complete payloads stored since the flush before it.
RECURSIVE FlushesWhole(_, _)
FlushesWhole(pend, t) ==
    IF t = <<>> THEN TRUE
    ELSE IF Head(t).call = "write"
         THEN Head(t).data = pend /\ FlushesWhole(<<>>, Tail(t))
    ELSE IF Head(t).call = "append"
         THEN FlushesWhole(pend \o Head(t).data, Tail(t))
    ELSE FlushesWhole(pend, Tail(t))

\* One append of payload text to the buffer of p, from this state to the next.
OneAppend(p, text) ==
    LET used == mem[p].buf_used
        held == Held(mem[p].buf, used)
        siz  == Len(text)
    IN  IF used + siz > mem[p].buf_size
        THEN /\ trace' = <<WriteEv(held), AppendEv(text)>>
             /\ mem'[p].buf_used = siz
             /\ Held(mem'[p].buf, siz) = text
        ELSE /\ trace' = <<AppendEv(text)>>
             /\ mem'[p].buf_used = used + siz
             /\ Held(mem'[p].buf, used + siz) = held \o text

\* C1: in every reachable state the draw buffer holds no more bytes than
\* its capacity: buf_used <= buf_size, and the capacity of an initialised
\* session is the allocation's size.
C1_BufUsedWithinCapacity ==
    \A p \in Ptrs :
        /\ mem[p].buf_used <= mem[p].buf_size
        /\ mem[p].buf_size = Cardinality(DOMAIN mem[p].buf)

\* A sctui_text whose payload overflowed the buffer and then filled it.
C1_Witness ==
    \E p \in active :
        /\ last_op.name = "sctui_text"
        /\ Events(trace, "write") # <<>>
        /\ mem[p].buf_used = mem[p].buf_size

\* C2: sctui_commit makes one write, of exactly the buf_used bytes held,
\* which are the payloads stored since the previous flush in order, and
\* leaves buf_used = 0; on an empty buffer the write has zero bytes.
C2_CommitWritesHeld ==
    [][last_op'.name = "sctui_commit" =>
        LET p == last_op'.args.p
            held == Held(mem[p].buf, mem[p].buf_used)
        IN  /\ trace' = <<WriteEv(held)>>
            /\ held = pending
            /\ Len(held) = mem[p].buf_used
            /\ mem'[p].buf_used = 0
            /\ pending' = <<>>]_vars

\* A commit that wrote two payloads ("hi", "hi") in one write.
C2_Witness ==
    /\ last_op.name = "sctui_commit"
    /\ trace = <<WriteEv(<<104, 105, 104, 105>>)>>
    /\ mem[last_op.args.p].buf_used = 0

\* C3: an append that finds buf_used + len > capacity first writes exactly
\* the bytes held and then stores the whole payload from index 0; one that
\* fits writes nothing; and every flush of every drawing call consists of
\* complete payloads only.
C3_FlushBeforeStore ==
    [][/\ last_op'.name = "sctui_hide_cursor" =>
            OneAppend(last_op'.args.p, ESC_HIDE_CURSOR)
       /\ last_op'.name = "sctui_show_cursor" =>
            OneAppend(last_op'.args.p, ESC_SHOW_CURSOR)
       /\ last_op'.name = "sctui_cursor" =>
            \/ /\ mem[last_op'.args.p].cursor_x = last_op'.args.x
               /\ mem[last_op'.args.p].cursor_y = last_op'.args.y
            \/ OneAppend(last_op'.args.p,
                         ExpectedMove(last_op'.args.x, last_op'.args.y))
       /\ last_op'.name \in {"sctui_commit", "sctui_cursor", "sctui_text",
                              "sctui_hide_cursor", "sctui_show_cursor"} =>
            FlushesWhole(pending, trace')]_vars

\* A hide-cursor that did not fit after a show-cursor: flush, then store.
C3_Witness ==
    /\ last_op.name = "sctui_hide_cursor"
    /\ trace = <<WriteEv(ESC_SHOW_CURSOR), AppendEv(ESC_HIDE_CURSOR)>>
    /\ Held(mem[last_op.args.p].buf, mem[last_op.args.p].buf_used) = ESC_HIDE_CURSOR

\* C4: sctui_cursor(x, y) at the recorded position changes nothing and
\* writes nothing; elsewhere it stores exactly one sequence ESC [ y ; x H
\* and records (x, y).
C4_CursorDedup ==
    [][last_op'.name = "sctui_cursor" =>
        LET p == last_op'.args.p
            x == last_op'.args.x
            y == last_op'.args.y
        IN  IF mem[p].cursor_x = x /\ mem[p].cursor_y = y
            THEN /\ trace' = <<>>
                 /\ mem' = mem
                 /\ tty' = tty
                 /\ pending' = pending
                 /\ pc' = pc
            ELSE /\ Events(trace', "append") = <<AppendEv(ExpectedMove(x, y))>>
                 /\ pending' = PendingAfter(pending, trace')
                 /\ mem'[p].cursor_x = x
                 /\ mem'[p].cursor_y = y
                 /\ mem'[p].orig = mem[p].orig
                 /\ tty' = tty]_vars

\* A redundant sctui_cursor(5, 10): nothing stored, nothing written.
C4_Witness ==
    /\ last_op.name = "sctui_cursor"
    /\ last_op.args.x = 5
    /\ last_op.args.y = 10
    /\ trace = <<>>

\* The bytes the calls moves[i], moves[i+1], moves[i+2] stored, in order.
StoredBy3(i) == moves[i].stored \o moves[i + 1].stored \o moves[i + 2].stored

\* The calls moves[i], moves[i+1], moves[i+2] were to (5,5), (5,5), (6,5).
Is556(i) ==
    /\ moves[i].x = 5 /\ moves[i].y = 5
    /\ moves[i + 1].x = 5 /\ moves[i + 1].y = 5
    /\ moves[i + 2].x = 6 /\ moves[i + 2].y = 5

\* C5 (as amended): sctui_cursor (5,5), (5,5), (6,5) in a row stores two
\* sequences, for (5,5) and then (6,5), on a session whose recorded cursor
\* is not (5,5), a fresh one at (1,1) included; it stores one, for (6,5),
\* only when the recorded cursor was (5,5) already.  The second call
\* stores nothing either way.
C5_MoveScriptStores ==
    \A i \in 1..(Len(moves) - 2) :
        Is556(i) =>
            /\ moves[i + 1].stored = <<>>
            /\ StoredBy3(i) =
                   IF moves[i].fx = 5 /\ moves[i].fy = 5
                   THEN <<AppendEv(ExpectedMove(6, 5))>>
                   ELSE <<AppendEv(ExpectedMove(5, 5)), AppendEv(ExpectedMove(6, 5))>>

\* The three calls made on a fresh session, whose cursor is (1,1).
C5_Witness ==
    /\ Len(moves) = 3
    /\ Is556(1)
    /\ moves[1].fx = 1 /\ moves[1].fy = 1
    /\ Len(StoredBy3(1)) = 2

\* C5 as claimed: the three calls store exactly one sequence, for (6,5).
C5_Original ==
    \A i \in 1..(Len(moves) - 2) :
        Is556(i) => StoredBy3(i) = <<AppendEv(ExpectedMove(6, 5))>>

\* C6: a sctui_init made while a session is Active ends the process,
\* touches no session state, makes no system call and changes no terminal
\* mode; never are two sessions Active.
C6_SecondInitFails ==
    [][/\ Cardinality(active') <= 1
       /\ last_op'.name = "sctui_init" /\ active # {} =>
            /\ pc' = "exited"
            /\ stderr' = "[sctui]: initialized"
            /\ mem' = mem
            /\ global_sctui' = global_sctui
            /\ tty' = tty
            /\ trace' = <<>>
            /\ active' = active]_vars

\* A second sctui_init, on another struct, while session 1 is Active.
C6_Witness ==
    /\ last_op.name = "sctui_init"
    /\ last_op.args.p = 2
    /\ active = {1}
    /\ pc = "exited"
    /\ tty.alt

\* C7: the original attributes a session holds are those the terminal had
\* just before sctui_init, whatever is drawn; sctui_fini writes the
\* leave-alternate-screen sequence and then re-applies them, so the
\* terminal is back in its mode from before sctui_init.
C7_FiniRestores ==
    [][/\ global_sctui' # NULL => mem'[global_sctui'].orig = pre_init'
       /\ last_op'.name = "sctui_fini" /\ global_sctui # NULL =>
            /\ trace' = <<WriteEv(ESC_CLOSE_ALT_SCREEN), SetattrEv(pre_init)>>
            /\ tty'.attrs = pre_init
            /\ ~tty'.alt
            /\ pc' = "running"]_vars

\* sctui_fini after drawing (bytes still unflushed) and a key read, the
\* terminal having been in another mode meanwhile.
C7_Witness ==
    /\ last_op.name = "sctui_fini"
    /\ global_sctui # NULL
    /\ mem[global_sctui].buf_used > 0
    /\ keybuf[1] = 97
    /\ mem[global_sctui].cur # pre_init
    /\ tty.attrs = pre_init
    /\ ~tty.alt

\* C8 as claimed: when the process has ended through _sctui_die, the
\* terminal is in its mode from before sctui_init and off the alternate
\* screen.
C8_RestoredOnEveryFatalPath ==
    pc = "exited" => tty.attrs = pre_init /\ ~tty.alt

\* The window-size query of a call failed: the ioctl, or a zero column count.
QueryFailed(ws) == ws.rc = -1 \/ ws.ws_col = 0

\* C9: a failed window-size query (the ioctl fails, or reports zero
\* columns) makes sctui_get_win write the leave-alternate-screen sequence,
\* re-apply the original attributes and end the process, storing no width
\* or height; inside sctui_init the attributes re-applied are the ones
\* that call captured, and the terminal ends in its mode from before it.
C9_QueryFailureFinalizes ==
    [][/\ last_op'.name = "sctui_get_win" /\ QueryFailed(last_op'.args.ws) =>
            LET p == last_op'.args.p IN
            /\ trace' = <<WriteEv(ESC_CLOSE_ALT_SCREEN), SetattrEv(mem[p].orig)>>
            /\ tty'.attrs = pre_init
            /\ ~tty'.alt
            /\ pc' = "exited"
            /\ stderr' = "[sctui]: failed to get winsize"
            /\ mem'[p].w = mem[p].w
            /\ mem'[p].h = mem[p].h
       /\ (/\ last_op'.name = "sctui_init"
           /\ global_sctui = NULL
           /\ QueryFailed(last_op'.args.ws)) =>
            LET p == last_op'.args.p IN
            /\ Len(trace') = 4
            /\ trace'[1] = SetattrEv(mem'[p].cur)
            /\ trace'[2] = WriteEv(ESC_OPEN_ALT_SCREEN)
            /\ trace'[3] = WriteEv(ESC_CLOSE_ALT_SCREEN)
            /\ trace'[4] = SetattrEv(tty.attrs)
            /\ mem'[p].orig = tty.attrs
            /\ tty' = tty
            /\ pc' = "exited"
            /\ stderr' = "[sctui]: failed to get winsize"
            /\ mem'[p].w = mem[p].w
            /\ mem'[p].h = mem[p].h]_vars

\* A sctui_init whose query reported zero columns, on a terminal whose raw
\* mode differs from its original one.
C9_Witness ==
    /\ last_op.name = "sctui_init"
    /\ last_op.args.ws = [rc |-> 0, ws_col |-> 0, ws_row |-> 43]
    /\ pc = "exited"
    /\ mem[1].cur # mem[1].orig
    /\ tty.attrs = pre_init
    /\ ~tty.alt

\* The window-size query of the step to the next state, if that step is a
\* sctui_get_win or a sctui_init that got to ask.
Queried ==
    \/ last_op'.name = "sctui_get_win"
    \/ last_op'.name = "sctui_init" /\ global_sctui = NULL

\* C10 (as amended): a successful query with a non-zero column count
\* stores w = the reported columns and h = the reported rows, or h = 24
\* when zero rows are reported; a zero column count stores nothing and
\* ends the process, so w is never the default 80.
C10_WindowDefaults ==
    [][Queried /\ last_op'.args.ws.rc = 0 =>
        LET p  == last_op'.args.p
            ws == last_op'.args.ws
        IN  IF ws.ws_col = 0
            THEN /\ pc' = "exited"
                 /\ mem'[p].w = mem[p].w
                 /\ mem'[p].h = mem[p].h
            ELSE /\ mem'[p].w = ws.ws_col
                 /\ mem'[p].h = IF ws.ws_row = 0 THEN 24 ELSE ws.ws_row
                 /\ last_op'.name = "sctui_get_win" => pc' = "running"]_vars

\* A sctui_get_win that was told 132 columns and zero rows.
C10_Witness ==
    /\ last_op.name = "sctui_get_win"
    /\ last_op.args.ws = [rc |-> 0, ws_col |-> 132, ws_row |-> 0]
    /\ pc = "running"
    /\ mem[last_op.args.p].w = 132
    /\ mem[last_op.args.p].h = 24

\* C10 as claimed: a successful query that reports a zero dimension
\* completes with the default for it (w = 80, h = 24) and the reported
\* value for the other.
C10_Original ==
    [][last_op'.name = "sctui_get_win" /\ last_op'.args.ws.rc = 0 =>
        LET p  == last_op'.args.p
            ws == last_op'.args.ws
        IN  /\ pc' = "running"
            /\ mem'[p].w = IF ws.ws_col = 0 THEN 80 ELSE ws.ws_col
            /\ mem'[p].h = IF ws.ws_row = 0 THEN 24 ELSE ws.ws_row]_vars


(* --------------------------- C11 and C12 -------------------------------- *)

\* The string a buffer holds: its bytes before the first NUL.
CStr(bytes) ==
    LET n == Cardinality(DOMAIN bytes)
        z == { i \in 0..(n - 1) : bytes[i] = 0 }
        e == IF z = {} THEN n ELSE CHOOSE i \in z : \A j \in z : i <= j
    IN  [i \in 1..e |-> bytes[i - 1]]

\* The reference line of the specification at index i.
ReferenceLine(offset, w, text, i) ==
    LET n == IF Len(text) < w - offset THEN Len(text) ELSE w - offset
    IN  IF i >= offset /\ i < offset + n /\ text[i - offset + 1] # 10
        THEN text[i - offset + 1]
        ELSE 32

\* C11: for every offset >= 0, width >= 0 and text, offset >= width and
\* texts with newlines included, sctui_prepare_text returns a string of
\* exactly width characters, with a space at every index before offset and
\* no newline anywhere; an offset >= width gives width spaces.  The code
\* does not: with offset > width the copy length is negative.
C11_LineHasWidth ==
    pt.called =>
        /\ pt.out.status = "returned"
        /\ ~pt.out.overrun
        /\ LET line == CStr(pt.out.bytes) IN
           /\ Len(line) = pt.w
           /\ \A i \in 1..Len(line) :
                 /\ line[i] # 10
                 /\ (i <= pt.offset \/ pt.offset >= pt.w) => line[i] = 32

C13_TimeoutReportsNoByte ==
    last_op.name = "sctui_grab_key" =>
        IF last_op.args.arrival = 0
        THEN keybuf[1] \notin Arrivals \ {0}
        ELSE keybuf[1] = last_op.args.arrival


(* ------------------------------- C14 ----------------------------------- *)

\* The buffered operations.
Buffered == {"sctui_hide_cursor", "sctui_show_cursor", "sctui_cursor", "sctui_text"}

\* The move a call makes from the recorded cursor <<cx, cy>> to (x, y).
MoveIfElsewhere(cx, cy, x, y) ==
    IF cx = x /\ cy = y THEN <<>> ELSE ExpectedMove(x, y)

\* The payload bytes the buffered call op has to store in this state.
CallPayload(op) ==
    LET s == mem[op.args.p] IN
    CASE op.name = "sctui_hide_cursor" -> ESC_HIDE_CURSOR
      [] op.name = "sctui_show_cursor" -> ESC_SHOW_CURSOR
      [] op.name = "sctui_cursor" ->
            MoveIfElsewhere(s.cursor_x, s.cursor_y, op.args.x, op.args.y)
      [] op.name = "sctui_text" ->
            MoveIfElsewhere(s.cursor_x, s.cursor_y, op.args.x, op.args.y)
            \o op.args.text
            \o MoveIfElsewhere(op.args.x, op.args.y, s.cursor_x, s.cursor_y)

\* C14: a buffered operation (hide, show, cursor, text) whose payload fits
\* in the rest of the buffer writes nothing and leaves the payload held
\* behind what was held; whatever a buffered operation does write is what
\* the buffer held, written by sctui_commit, and the calls that are neither
\* buffered nor sctui_commit write none of the held bytes and leave the
\* buffer as it is.
C14_NoOutputBeforeCommit ==
    [][/\ last_op'.name \in Buffered =>
            LET s       == mem[last_op'.args.p]
                held    == Held(s.buf, s.buf_used)
                payload == CallPayload(last_op')
            IN  /\ s.buf_used + Len(payload) <= s.buf_size =>
                      /\ Events(trace', "write") = <<>>
                      /\ mem'[last_op'.args.p].buf_used = s.buf_used + Len(payload)
                      /\ Held(mem'[last_op'.args.p].buf,
                              mem'[last_op'.args.p].buf_used) = held \o payload
                /\ FlushesWhole(held, trace')
       /\ last_op'.name \in {"sctui_clear", "sctui_fini", "sctui_get_win",
                              "sctui_grab_key"} =>
            /\ \A p \in active : /\ mem'[p].buf = mem[p].buf
                                 /\ mem'[p].buf_used = mem[p].buf_used
            /\ \A k \in 1..Len(trace') :
                  trace'[k].call = "write" =>
                      trace'[k].data \in {ESC_CLEAR_SCREEN, ESC_CLOSE_ALT_SCREEN}]_vars

\* A text stored behind held bytes, and nothing written.
C14_Witness ==
    /\ last_op.name = "sctui_text"
    /\ last_op.args.text = <<104, 105>>
    /\ Events(trace, "write") = <<>>
    /\ Len(Events(trace, "append")) >= 1
    /\ mem[last_op.args.p].buf_used > 2
    /\ pc = "running"


(* ------------------------------- C15 ----------------------------------- *)

\* The cursor position the session p records.
Recorded(s) == <<s.cursor_x, s.cursor_y>>

\* C15: after sctui_init the recorded cursor of the session is the target
\* of the cursor-position sequence stored last, (1, 1) if none was stored
\* since initialization; and no call changes it but a sctui_cursor to
\* another position, made by the application or by sctui_text: not
\* sctui_commit, a flush on overflow, hide, show or clear.
C15_CursorIsLastSequence ==
    [][/\ \A p \in active' : Recorded(mem'[p]) = last_seq'
       /\ \A p \in Ptrs :
            Recorded(mem'[p]) # Recorded(mem[p]) =>
                \/ last_op'.name = "sctui_init"
                \/ /\ last_op'.name \in {"sctui_cursor", "sctui_text"}
                   /\ last_op'.args.p = p
                   /\ \E k \in 1..Len(trace') :
                         /\ trace'[k].call = "append"
                         /\ IsMoveSeq(trace'[k].data)]_vars

\* A hide-cursor that flushed what was held, a cursor move included, and
\* left the recorded cursor where that move put it.
C15_Witness ==
    /\ last_op.name = "sctui_hide_cursor"
    /\ Events(trace, "write") # <<>>
    /\ last_seq = <<5, 10>>
    /\ Recorded(mem[last_op.args.p]) = <<5, 10>>


(* ------------------------------- C16 ----------------------------------- *)

\* C16: every byte an append stores, the terminator included, lands at an
\* index below the capacity of the buffer, also when the payload fills the
\* buffer exactly or is as long as the capacity.  The code does not: the
\* terminator of a payload that ends at the capacity is stored one past
\* the allocation.
C16_StoresWithinAllocation ==
    last_op.name \in {"sctui_hide_cursor", "sctui_show_cursor",
                      "sctui_cursor", "sctui_text"} => ~overrun


(* ------------------------------- C17 ----------------------------------- *)

\* C17: the buffer is transparent.  At every point of a session the bytes
\* written from the buffer so far, followed by the bytes it holds, are the
\* payloads given to it so far, joined in the order of the calls.
C17_BufferTransparent ==
    \A p \in active :
        stream.sent \o Held(mem[p].buf, mem[p].buf_used) = stream.given

\* Payloads given, part of them written by a flush on overflow and the
\* rest held.
C17_Witness ==
    /\ last_op.name = "sctui_text"
    /\ Events(trace, "write") # <<>>
    /\ stream.sent # <<>>
    /\ \E p \in active : mem[p].buf_used > 0
    /\ Len(stream.given) > BUFSIZ


(* ------------------------------- C18 ----------------------------------- *)

\* C18: a sctui_text(x, y, text) call with a text of at most BUFSIZ bytes
\* returns and leaves the recorded cursor as it was before the call; it
\* stores, in this order, the move to (x, y) unless the cursor is there,
\* the text, and the move back unless the cursor was at (x, y); and of the
\* session it changes nothing but the buffer's bytes and used length.  With
\* a longer text the process aborts when the move to (x, y), if one was
\* needed, is stored and recorded: the cursor stays at (x, y).
C18_TextRestoresCursor ==
    [][last_op'.name = "sctui_text" =>
        LET p  == last_op'.args.p
            x  == last_op'.args.x
            y  == last_op'.args.y
            t  == last_op'.args.text
            cx == mem[p].cursor_x
            cy == mem[p].cursor_y
            there == cx = x /\ cy = y
        IN  /\ pc' = "running" <=> Len(t) <= BUFSIZ
            /\ pc' = "running" =>
                  /\ Recorded(mem'[p]) = <<cx, cy>>
                  /\ Events(trace', "append") =
                        (IF there THEN <<>> ELSE <<AppendEv(ExpectedMove(x, y))>>)
                        \o <<AppendEv(t)>>
                        \o (IF there THEN <<>> ELSE <<AppendEv(ExpectedMove(cx, cy))>>)
                  /\ [mem'[p] EXCEPT !.buf = mem[p].buf,
                                     !.buf_used = mem[p].buf_used] = mem[p]
                  /\ \A q \in Ptrs \ {p} : mem'[q] = mem[q]
                  /\ global_sctui' = global_sctui
                  /\ tty' = tty /\ keybuf' = keybuf
            /\ pc' # "running" =>
                  /\ pc' = "aborted"
                  /\ Recorded(mem'[p]) = <<x, y>>
                  /\ Events(trace', "append") =
                        IF there THEN <<>> ELSE <<AppendEv(ExpectedMove(x, y))>>]_vars

\* A text drawn away from the cursor: three payloads, and the cursor back
\* where it was.
C18_Witness ==
    /\ last_op.name = "sctui_text"
    /\ pc = "running"
    /\ last_op.args.text = <<104, 105>>
    /\ Len(Events(trace, "append")) = 3
    /\ Recorded(mem[last_op.args.p]) = <<6, 10>>
    /\ <<last_op.args.x, last_op.args.y>> = <<5, 5>>


\* C18 as stated, for every text: the recorded cursor after the call is the
\* one before it, and the session differs in its buffer only.
C18_Original ==
    [][last_op'.name = "sctui_text" =>
        LET p == last_op'.args.p
        IN  /\ Recorded(mem'[p]) = Recorded(mem[p])
            /\ [mem'[p] EXCEPT !.buf = mem[p].buf,
                               !.buf_used = mem[p].buf_used] = mem[p]]_vars


(* ------------------------------- C19 ----------------------------------- *)

\* C19: the lifecycle never returns to Uninitialized.  A sctui_init that
\* succeeds sets the guard global_sctui and nothing clears it, sctui_fini
\* included; so once a sctui_init has succeeded every later one ends the
\* process, also after sctui_fini.  sctui_fini passes its assertion and
\* returns in every state after that first sctui_init, and aborts, with
\* nothing done, in every state before it.
C19_NeverUninitializedAgain ==
    [][/\ global_sctui # NULL => global_sctui' = global_sctui
       /\ active' # {} => global_sctui' # NULL
       /\ last_op'.name = "sctui_init" =>
            IF global_sctui # NULL
            THEN /\ pc' = "exited"
                 /\ stderr' = "[sctui]: initialized"
                 /\ active' = active
                 /\ mem' = mem /\ tty' = tty /\ trace' = <<>>
            ELSE pc' = "running" =>
                    /\ global_sctui' = last_op'.args.p
                    /\ active' = {last_op'.args.p}
       /\ last_op'.name = "sctui_fini" =>
            IF global_sctui = NULL
            THEN /\ pc' = "aborted"
                 /\ tty' = tty /\ trace' = <<>>
            ELSE /\ pc' = "running"
                 /\ active' = {}]_vars

\* A sctui_init after sctui_fini: the terminal is back in its first mode,
\* no session is Active, and the call ends the process.
C19_Witness ==
    /\ last_op.name = "sctui_init"
    /\ pc = "exited"
    /\ stderr = "[sctui]: initialized"
    /\ active = {}
    /\ global_sctui # NULL
    /\ ~tty.alt
    /\ tty.attrs = pre_init


(* ------------------------------- C20 ----------------------------------- *)

\* C20: an append of a payload longer than the capacity of the buffer
\* aborts the process before it does anything: no flush, no byte stored,
\* buf_used as it was; every payload of at most the capacity is accepted.
\* The payloads of hide, show and cursor never exceed the capacity; the
\* text of sctui_text may, and its append follows the move to (x, y), so
\* what a refused text leaves is what that move alone leaves.
C20_LongPayloadRefused ==
    [][/\ last_op'.name \in Buffered =>
            /\ mem[last_op'.args.p].buf_size = BUFSIZ
            /\ last_op'.name # "sctui_text" => pc' = "running"
       /\ last_op'.name = "sctui_text" =>
            LET p    == last_op'.args.p
                t    == last_op'.args.text
                s    == mem[p]
                move == MoveIfElsewhere(s.cursor_x, s.cursor_y,
                                        last_op'.args.x, last_op'.args.y)
                fits == s.buf_used + Len(move) <= s.buf_size
                held == Held(s.buf, s.buf_used)
            IN  IF Len(t) > s.buf_size
                THEN /\ pc' = "aborted"
                     /\ move = <<>> => /\ trace' = <<>>
                                       /\ mem' = mem
                     /\ move # <<>> =>
                           /\ trace' = (IF fits THEN <<>> ELSE <<WriteEv(held)>>)
                                        \o <<AppendEv(move)>>
                           /\ mem'[p].buf_used =
                                 (IF fits THEN s.buf_used ELSE 0) + Len(move)
                           /\ Held(mem'[p].buf, mem'[p].buf_used) =
                                 (IF fits THEN held ELSE <<>>) \o move
                ELSE /\ pc' = "running"
                     /\ \E k \in 1..Len(trace') : trace'[k] = AppendEv(t)]_vars

\* A text of BUFSIZ + 1 bytes, drawn at the cursor, refused: the process is
\* aborted, nothing was written or stored, and the bytes held are still held.
C20_Witness ==
    /\ last_op.name = "sctui_text"
    /\ Len(last_op.args.text) = BUFSIZ + 1
    /\ pc = "aborted"
    /\ trace = <<>>
    /\ mem[last_op.args.p].buf_used > 0
    /\ pending = Held(mem[last_op.args.p].buf, mem[last_op.args.p].buf_used)

====
